---- MODULE Spec2Model ----
(***************************************************************************)
(* c3nav routing: the compiled GraphRoom, its router (build_router and     *)
(* _build_router of src/c3nav/routing/room.py) and the room build steps    *)
(* (add_point, finish_build).                                              *)
(*                                                                         *)
(* Numbers.  Distances are modelled as non-negative integers (a fixed      *)
(* point unit), np.inf as the value Inf and nan as the value NaN.  The     *)
(* float32 products of _build_router are exact for integers below 2^24,    *)
(* which covers every finite weight of the enumerated rooms.  The float16  *)
(* store of finish_build is modelled by F16.                               *)
(*                                                                         *)
(* Geometry.  A coordinate is a position on a line in units of 0.01; a     *)
(* polygon is the set of positions it covers and buffer(0.01) adds the     *)
(* positions at distance 1.                                                *)
(*                                                                         *)
(* Indices.  Local point indices, ctype indices and excludable indices are *)
(* 0-based as in the source; tuples are TLA+ sequences, so the element of  *)
(* index k of a tuple t is t[k + 1].                                       *)
(***************************************************************************)
EXTENDS Integers, Sequences, FiniteSets, TLC

VARIABLES
    rooms,          \* the GraphRoom instances alive in the process (compiled)
    router_cache,   \* GraphRoom.router_cache: one dict of the class
    calls,          \* the build_router calls made so far, with what each returned
    built_points,   \* GraphRoom._built_points of the room under construction
    areas,          \* GraphRoom.areas: each area's polygon and point list
    connections,    \* GraphPoint.connections of every point: to_point -> connection
    compiled,       \* what finish_build assigned to the room
    last_add,       \* the last add_point call: argument, result, state before
    nconnect,       \* number of connect_to registrations made
    registered,     \* the <<from, to, ctype>> of every connect_to call made
    level,          \* the GraphLevel under construction: build() and its stages
    threads,        \* the build_router calls in progress, one per thread
    query,          \* the last query-time operation on a room and its result
    ring,           \* the last _add_ring call: arguments and result
    manager         \* the MapManager: main_pkg, pkgs and the last add_map_dir call

routerVars == <<rooms, router_cache, calls>>
buildVars == <<built_points, areas, connections, compiled, last_add, nconnect,
               registered>>
restVars == <<level, threads, query, ring, manager>>
vars == <<rooms, router_cache, calls,
          built_points, areas, connections, compiled, last_add, nconnect,
          registered,
          level, threads, query, ring, manager>>

----------------------------------------------------------------------------
(* Bounds of the model *)

NPoints == 3        \* points of a compiled room
MaxDist == 3        \* walk distances of the enumerated rooms: 2 and MaxDist
MaxRooms == 2       \* GraphRoom instances alive in the cache protocol
MaxCalls == 2       \* build_router calls of the cache protocol
MaxMtime == 2       \* graph.mtime values: 1..MaxMtime
MaxRoomId == 1      \* room.i values: 0..MaxRoomId
MaxCoord == 5       \* coordinates offered to add_point: 0..MaxCoord
MaxBuilt == 3       \* points add_point may append to the room
MaxRoomPoints == 2  \* points of the room whose connections are built
MaxConnects == 2    \* connections made before finish_build

----------------------------------------------------------------------------
(* Numbers *)

Inf == 1000000000
NaN == -1
SoftFactor == 1000
NoPred == -9999
F16Precision == 2048
F16Overflow == 65520

IsNull(v) == v = Inf \/ v = NaN

\* IEEE product on the modelled values: inf * 0 = nan, inf * x = inf.
Mul(a, b) ==
    IF a = NaN \/ b = NaN THEN NaN
    ELSE IF a = Inf \/ b = Inf
         THEN (IF a = 0 \/ b = 0 THEN NaN ELSE Inf)
         ELSE a * b

Add(a, b) == IF a = Inf \/ b = Inf THEN Inf ELSE a + b

Maximum(a, b) == IF a >= b THEN a ELSE b

Idx(n) == 0 .. (n - 1)

RECURSIVE SetMin(_)
SetMin(S) ==
    LET x == CHOOSE y \in S : TRUE
    IN IF S = {x} THEN x
       ELSE LET m == SetMin(S \ {x}) IN IF x <= m THEN x ELSE m

----------------------------------------------------------------------------
(* build_router: projection of the arguments on the room, cache key *)

\* tuple(i for i, v in enumerate(tuple) if v in set), 0-based indices
RECURSIVE IndicesFrom(_, _, _)
IndicesFrom(tuple, set, k) ==
    IF k > Len(tuple) THEN <<>>
    ELSE IF tuple[k] \in set
         THEN <<k - 1>> \o IndicesFrom(tuple, set, k + 1)
         ELSE IndicesFrom(tuple, set, k + 1)

IndicesIn(tuple, set) == IndicesFrom(tuple, set, 1)

Elems(t) == {t[k] : k \in 1 .. Len(t)}

\* ','.join(str(i) for i in t)
RECURSIVE Join(_)
Join(t) ==
    IF Len(t) = 0 THEN ""
    ELSE IF Len(t) = 1 THEN ToString(t[1])
         ELSE ToString(t[1]) \o "," \o Join(Tail(t))

\* the key without the graph's mtime
CacheKeyNoMtime(mtime, i, ctypes, allow_nonpublic, avoid, include) ==
    "c3nav__graph__roomrouter__" \o ToString(i)
        \o "__" \o Join(ctypes)
        \o "__" \o (IF allow_nonpublic THEN "1" ELSE "0")
        \o "__" \o Join(avoid) \o "__" \o Join(include)

\* the key without the avoided groups
CacheKeyNoAvoid(mtime, i, ctypes, allow_nonpublic, avoid, include) ==
    "c3nav__graph__roomrouter__" \o ToString(mtime) \o "__" \o ToString(i)
        \o "__" \o Join(ctypes)
        \o "__" \o (IF allow_nonpublic THEN "1" ELSE "0")
        \o "__" \o "__" \o Join(include)

\* 'c3nav__graph__roomrouter__%s__%s__%s__%d__%s__%s'
CacheKey(mtime, i, ctypes, allow_nonpublic, avoid, include) ==
    "c3nav__graph__roomrouter__" \o ToString(mtime) \o "__" \o ToString(i)
        \o "__" \o Join(ctypes)
        \o "__" \o (IF allow_nonpublic THEN "1" ELSE "0")
        \o "__" \o Join(avoid) \o "__" \o Join(include)

----------------------------------------------------------------------------
(* _build_router: the weighted matrix *)

NumPoints(room) == Len(room.points)

\* every layer at factor 1, whatever is allowed
ctype_factorsAllOne(room, ctypes) == [c \in Idx(Len(room.ctypes)) |-> 1]

\* ctype_factors = ones * 1000; ctype_factors[ctypes] = 1
ctype_factors(room, ctypes) ==
    [c \in Idx(Len(room.ctypes)) |->
        IF c \in Elems(ctypes) THEN 1 ELSE SoftFactor]

\* np.amin(distances * f, axis=0)
Amin(distances, f, P) ==
    [i \in P |-> [j \in P |->
        SetMin({Mul(distances[c][i][j], f[c]) : c \in DOMAIN f})]]

\* np.amin(self.distances * ctype_factors, axis=0)
CollapsedDistances(room, ctypes) ==
    Amin(room.distances, ctype_factors(room, ctypes), Idx(NumPoints(room)))

\* np.ones_like(distances)
OnesLike(room) ==
    LET P == Idx(NumPoints(room)) IN [i \in P |-> [j \in P |-> 1]]

\* self.excludable_points[groups, :].any(axis=0).nonzero()
MemberPoints(room, groups) ==
    {p \in Idx(NumPoints(room)) :
        \E e \in Elems(groups) : room.excludable_points[e][p]}

\* self.excludables.index(name)
IndexOf(tuple, name) ==
    SetMin({k \in 1 .. Len(tuple) : tuple[k] = name}) - 1

\* factors[points[:, None], :] = v
AssignRows(factors, points, v) ==
    [i \in DOMAIN factors |->
        IF i \in points THEN [j \in DOMAIN factors[i] |-> v] ELSE factors[i]]

\* factors[:, points] = v
AssignCols(factors, points, v) ==
    [i \in DOMAIN factors |-> [j \in DOMAIN factors[i] |->
        IF j \in points THEN v ELSE factors[i][j]]]

\* factors[points[:, None], :] = v ; factors[:, points] = v
AssignRowsCols(factors, points, v) ==
    AssignCols(AssignRows(factors, points, v), points, v)

\* factors[points[:, None], :] = np.maximum(factors[points[:, None], :], v)
RaiseRows(factors, points, v) ==
    [i \in DOMAIN factors |->
        IF i \in points
        THEN [j \in DOMAIN factors[i] |-> Maximum(factors[i][j], v)]
        ELSE factors[i]]

\* factors[:, points] = np.maximum(factors[:, points], v)
RaiseCols(factors, points, v) ==
    [i \in DOMAIN factors |-> [j \in DOMAIN factors[i] |->
        IF j \in points THEN Maximum(factors[i][j], v) ELSE factors[i][j]]]

RaiseRowsCols(factors, points, v) ==
    RaiseCols(RaiseRows(factors, points, v), points, v)

\* ':nonpublic' not in include, where include is the tuple of excludable
\* indices build_router passes on: no index equals the string.
NonpublicNotIn(include) == \A k \in 1 .. Len(include) : include[k] \in Int

\* the nonpublic penalty on the rows only
NonpublicStepRowsOnly(room, factors, allow_nonpublic, include) ==
    IF ":nonpublic" \in Elems(room.excludables) /\ NonpublicNotIn(include)
    THEN AssignRows(factors,
             MemberPoints(room, <<IndexOf(room.excludables, ":nonpublic")>>),
             IF allow_nonpublic THEN SoftFactor ELSE Inf)
    ELSE factors

\* lines 277-280
NonpublicStep(room, factors, allow_nonpublic, include) ==
    IF ":nonpublic" \in Elems(room.excludables) /\ NonpublicNotIn(include)
    THEN AssignRowsCols(factors,
             MemberPoints(room, <<IndexOf(room.excludables, ":nonpublic")>>),
             IF allow_nonpublic THEN SoftFactor ELSE Inf)
    ELSE factors

\* lines 282-285
AvoidStep(room, factors, avoid) ==
    IF Len(avoid) > 0
    THEN RaiseRowsCols(factors, MemberPoints(room, avoid), SoftFactor)
    ELSE factors

\* lines 287-290
IncludeStep(room, factors, include) ==
    IF Len(include) > 0
    THEN AssignRowsCols(factors, MemberPoints(room, include), 1)
    ELSE factors

\* the include step run before the avoid step
FactorsIncludeFirst(room, allow_nonpublic, avoid, include) ==
    AvoidStep(room,
        IncludeStep(room,
            NonpublicStep(room, OnesLike(room), allow_nonpublic, include),
            include),
        avoid)

\* lines 275-290
Factors(room, allow_nonpublic, avoid, include) ==
    IncludeStep(room,
        AvoidStep(room,
            NonpublicStep(room, OnesLike(room), allow_nonpublic, include),
            avoid),
        include)

\* distances * factors, element by element
Product(d, f) ==
    [i \in DOMAIN d |-> [j \in DOMAIN d[i] |-> Mul(d[i][j], f[i][j])]]

\* distances * factors
WeightedMatrix(room, ctypes, allow_nonpublic, avoid, include) ==
    Product(CollapsedDistances(room, ctypes),
            Factors(room, allow_nonpublic, avoid, include))

----------------------------------------------------------------------------
(* csgraph_from_dense(.., null_value=np.inf) and shortest_path *)

\* inf and nan entries are no edges; every other entry is an edge
csgraph_from_dense(w) ==
    [i \in DOMAIN w |-> [j \in DOMAIN w[i] |->
        IF IsNull(w[i][j]) THEN Inf ELSE w[i][j]]]

\* one round of relaxation through point k, with predecessor tracking
Relax(D, k) ==
    [d |-> [i \in DOMAIN D.d |-> [j \in DOMAIN D.d[i] |->
               LET via == Add(D.d[i][k], D.d[k][j])
               IN IF via < D.d[i][j] THEN via ELSE D.d[i][j]]],
     p |-> [i \in DOMAIN D.p |-> [j \in DOMAIN D.p[i] |->
               LET via == Add(D.d[i][k], D.d[k][j])
               IN IF via < D.d[i][j] THEN D.p[k][j] ELSE D.p[i][j]]]]

RECURSIVE RelaxFrom(_, _, _)
RelaxFrom(D, k, n) == IF k >= n THEN D ELSE RelaxFrom(Relax(D, k), k + 1, n)

\* the direct edges: distance 0 on the diagonal, the edge's source as
\* predecessor, -9999 where there is none
DirectEdges(g) ==
    [d |-> [i \in DOMAIN g |-> [j \in DOMAIN g[i] |->
              IF i = j THEN 0 ELSE g[i][j]]],
     p |-> [i \in DOMAIN g |-> [j \in DOMAIN g[i] |->
              IF i # j /\ g[i][j] # Inf THEN i ELSE NoPred]]]

\* the pair shortest_path returns
Returned(D) == [shortest_paths |-> D.d, predecessors |-> D.p]

\* relaxation through point 0 only
shortest_pathOneRound(g) == Returned(RelaxFrom(DirectEdges(g), 0, 1))

\* shortest_path(g_sparse, return_predecessors=True)
shortest_path(g) ==
    Returned(RelaxFrom(DirectEdges(g), 0, Cardinality(DOMAIN g)))

\* GraphRoom._build_router
_build_router(room, ctypes, allow_nonpublic, avoid, include) ==
    shortest_path(csgraph_from_dense(
        WeightedMatrix(room, ctypes, allow_nonpublic, avoid, include)))

----------------------------------------------------------------------------
(* GraphRoom.build_router and the class-level router_cache *)

EmptyCache == [k \in {} |-> 0]

\* self.router_cache.get(cache_key); a RoomRouter is a 2-tuple, always truthy
CacheHit(cache, key) == key \in DOMAIN cache

\* the router is returned but never stored
CacheStoreLost(cache, key, entry) == cache

\* the dict is replaced by one that holds the new entry only
CacheStoreOnly(cache, key, entry) == [k \in {key} |-> entry]

\* self.router_cache[cache_key] = roomrouter
CacheStore(cache, key, entry) ==
    [k \in (DOMAIN cache) \cup {key} |-> IF k = key THEN entry ELSE cache[k]]

\* np.amin over an empty stack of layers raises: no router for such a room
CanRoute(room) == Len(room.ctypes) > 0

\* One call of build_router on the instance rooms[r].  A cache entry keeps,
\* beside the router, the instance and the call that computed it.
build_router(r, allowed_ctypes, allow_nonpublic, avoid, include) ==
    LET room == rooms[r]
        ctypes == IndicesIn(room.ctypes, allowed_ctypes)
        avoid_i == IndicesIn(room.excludables, avoid)
        include_i == IndicesIn(room.excludables, include)
    IN /\ CanRoute(room)
       /\ \E cache_key \in {CacheKey(room.mtime, room.i, ctypes,
                                      allow_nonpublic, avoid_i, include_i)} :
          \E hit \in {CacheHit(router_cache, cache_key)} :
          \E entry \in {IF hit THEN router_cache[cache_key]
                         ELSE [router |-> _build_router(room, ctypes,
                                   allow_nonpublic, avoid_i, include_i),
                               owner |-> r, serial |-> Len(calls) + 1]} :
             /\ router_cache' = IF hit THEN router_cache
                                ELSE CacheStore(router_cache, cache_key, entry)
             /\ calls' = Append(calls,
                    [room |-> r, allowed_ctypes |-> allowed_ctypes,
                     allow_nonpublic |-> allow_nonpublic,
                     avoid |-> avoid, include |-> include,
                     ctypes |-> ctypes, avoid_i |-> avoid_i,
                     include_i |-> include_i,
                     key |-> cache_key, built |-> ~hit,
                     router |-> entry.router, owner |-> entry.owner,
                     serial |-> entry.serial])
       /\ UNCHANGED rooms
       /\ UNCHANGED buildVars
       /\ UNCHANGED restVars

----------------------------------------------------------------------------
(* Building a room: prepare_build, add_point, connections, finish_build *)

Coords == 0 .. MaxCoord

\* geometry.buffer(0.01): the positions within one unit of the polygon
Buffer(polygon) ==
    {c \in (-1) .. (MaxCoord + 1) : \E q \in polygon : c - q \in {-1, 0, 1}}

\* self.clear_geometry: the room shrunk by the wall clearance
ClearGeometry == 2 .. (MaxCoord - 2)

\* self.mpl_clear = shapely_to_mpl(self.clear_geometry.buffer(0.01))
MplClear == Buffer(ClearGeometry)

\* self.mpl_clear.contains_point(coord)
contains_point(mpl, coord) == coord \in mpl

\* build_areas: the isolated (stair) area and the rest of the clear geometry,
\* each with its own buffered polygon
IsolatedAreas == <<{2}, ClearGeometry \ {2}>>

InitialAreas ==
    [k \in 1 .. Len(IsolatedAreas) |->
        [mpl_clear |-> Buffer(IsolatedAreas[k]), points |-> <<>>]]

\* the door-centre point of the level: a point of no room
DoorCenter == 99

PointIds == (0 .. (MaxBuilt - 1)) \cup {DoorCenter}

\* GraphPoint(x, y, room): ids are handed out in order of creation
GraphPoint(x, i) == [i |-> i, x |-> x]

\* GraphArea.add_point: the area keeps the point if its polygon contains it
AreaAddPoint(area, point) ==
    IF contains_point(area.mpl_clear, point.x)
    THEN [area EXCEPT !.points = Append(@, point.i)]
    ELSE area

NotCompiled == [done |-> FALSE]

NoAdd == [coord |-> -1, returned |-> <<>>, points_before |-> <<>>,
          areas_before |-> <<>>]

\* no level is being built, no call is in progress, nothing was queried
NoLevel == [pc |-> "idle"]
NoQuery == [op |-> "none"]
NoRing == [pc |-> "idle"]

\* MapManager.__init__: main_pkg = None (no package), pkgs empty; no call yet
NoManager == [main_pkg |-> <<>>, pkgs |-> <<>>, last |-> <<>>]

RestIdle ==
    /\ level = NoLevel
    /\ threads = <<>>
    /\ query = NoQuery
    /\ ring = NoRing
    /\ manager = NoManager

BuildIdle ==
    /\ built_points = <<>>
    /\ areas = <<>>
    /\ connections = <<>>
    /\ compiled = NotCompiled
    /\ last_add = NoAdd
    /\ nconnect = 0
    /\ registered = {}

\* add_point without the containment test
add_pointUnchecked(coord) ==
    LET point == GraphPoint(coord, Len(built_points))
    IN /\ ~compiled.done
       /\ Len(built_points) < MaxBuilt
       /\ built_points' = Append(built_points, point)
       /\ areas' = [k \in DOMAIN areas |-> AreaAddPoint(areas[k], point)]
       /\ last_add' = [coord |-> coord, returned |-> <<point>>,
                       points_before |-> built_points, areas_before |-> areas]
       /\ UNCHANGED <<connections, compiled, nconnect, registered>>
       /\ UNCHANGED routerVars
       /\ UNCHANGED restVars

\* GraphRoom.add_point
add_point(coord) ==
    /\ ~compiled.done
    /\ IF ~contains_point(MplClear, coord)
       THEN /\ last_add' = [coord |-> coord, returned |-> <<>>,
                            points_before |-> built_points,
                            areas_before |-> areas]
            /\ UNCHANGED <<built_points, areas>>
       ELSE LET point == GraphPoint(coord, Len(built_points))
            IN /\ Len(built_points) < MaxBuilt
               /\ built_points' = Append(built_points, point)
               /\ areas' = [k \in DOMAIN areas |-> AreaAddPoint(areas[k], point)]
               /\ last_add' = [coord |-> coord, returned |-> <<point>>,
                               points_before |-> built_points,
                               areas_before |-> areas]
    /\ UNCHANGED <<connections, compiled, nconnect, registered>>
    /\ UNCHANGED routerVars
    /\ UNCHANGED restVars

\* a dict assignment d[to] = connection: a new key goes last, an old key
\* keeps its place
DictPut(d, to, connection) ==
    IF \E k \in 1 .. Len(d) : d[k].to = to
    THEN [k \in 1 .. Len(d) |->
             IF d[k].to = to THEN [connection EXCEPT !.to = to] ELSE d[k]]
    ELSE Append(d, [connection EXCEPT !.to = to])

\* GraphPoint.connect_to: self.connections[other] = connection
connect_to(conns, from, to, distance, ctype) ==
    [conns EXCEPT ![from] =
        DictPut(@, to, [to |-> to, distance |-> distance, ctype |-> ctype])]

Dists == {0, 2, F16Precision + 1}

ExistingPoints == {built_points[k].i : k \in 1 .. Len(built_points)} \cup {DoorCenter}

\* both directions, as create_doors registers them
Connect ==
    /\ ~compiled.done
    /\ nconnect < MaxConnects
    /\ \E from \in ExistingPoints, to \in ExistingPoints :
          /\ from # to
          /\ \E distance \in Dists, ctype \in {"walk", "stair"} :
                /\ connections' = connect_to(
                       connect_to(connections, from, to, distance, ctype),
                       to, from, distance, ctype)
                /\ registered' = registered \cup {<<from, to, ctype>>,
                                                   <<to, from, ctype>>}
    /\ nconnect' = nconnect + 1
    /\ UNCHANGED <<built_points, areas, compiled, last_add>>
    /\ UNCHANGED routerVars
    /\ UNCHANGED restVars

\* one direction only
ConnectOneWay ==
    /\ ~compiled.done
    /\ nconnect < MaxConnects
    /\ \E from \in ExistingPoints, to \in ExistingPoints :
          /\ from # to
          /\ \E distance \in Dists, ctype \in {"walk", "stair"} :
                /\ connections' = connect_to(connections, from, to, distance,
                                             ctype)
                /\ registered' = registered \cup {<<from, to, ctype>>}
    /\ nconnect' = nconnect + 1
    /\ UNCHANGED <<built_points, areas, compiled, last_add>>
    /\ UNCHANGED routerVars
    /\ UNCHANGED restVars

\* the spacing of float16 values around d
RECURSIVE F16Step(_)
F16Step(d) == IF d < F16Precision THEN 1 ELSE 2 * F16Step(d \div 2)

\* storing a non-negative number in a float16 array: 11 significant bits,
\* round half to even, inf from 65520 on
F16(d) ==
    IF d = Inf \/ d >= F16Overflow THEN Inf
    ELSE LET step == F16Step(d)
             q == d \div step
             r == d % step
         IN IF 2 * r < step THEN q * step
            ELSE IF 2 * r > step THEN (q + 1) * step
            ELSE IF q % 2 = 0 THEN q * step ELSE (q + 1) * step

\* mapping = {point.i: i for i, point in enumerate(self._built_points)}
Mapping(built) ==
    [id \in {built[k].i : k \in 1 .. Len(built)} |->
        CHOOSE m \in Idx(Len(built)) :
            /\ built[m + 1].i = id
            /\ \A k \in Idx(Len(built)) : built[k + 1].i = id => k <= m]

\* the connections of one point that lead to a point of the room
RECURSIVE EdgesOf(_, _, _, _)
EdgesOf(from_i, d, mapping, k) ==
    IF k > Len(d) THEN <<>>
    ELSE IF d[k].to \in DOMAIN mapping
         THEN <<[from |-> mapping[from_i], to |-> mapping[d[k].to],
                 distance |-> d[k].distance, ctype |-> d[k].ctype]>>
              \o EdgesOf(from_i, d, mapping, k + 1)
         ELSE EdgesOf(from_i, d, mapping, k + 1)

\* for from_point in self._built_points: for to_point, connection in ...
RECURSIVE AllEdges(_, _, _, _)
AllEdges(built, conns, mapping, k) ==
    IF k > Len(built) THEN <<>>
    ELSE EdgesOf(built[k].i, conns[built[k].i], mapping, 1)
         \o AllEdges(built, conns, mapping, k + 1)

\* ctypes in order of first appearance
RECURSIVE FirstSeen(_, _)
FirstSeen(edges, seen) ==
    IF Len(edges) = 0 THEN seen
    ELSE IF Head(edges).ctype \in Elems(seen)
         THEN FirstSeen(Tail(edges), seen)
         ELSE FirstSeen(Tail(edges), Append(seen, Head(edges).ctype))

\* only the entries with from <= to are written
DistanceMatricesUpper(edges, ctypes, n) ==
    [c \in Idx(Len(ctypes)) |-> [i \in Idx(n) |-> [j \in Idx(n) |->
        LET S == {k \in 1 .. Len(edges) :
                     /\ edges[k].ctype = ctypes[c + 1]
                     /\ edges[k].from = i /\ edges[k].to = j /\ i <= j}
        IN IF S = {} THEN Inf
           ELSE F16(edges[CHOOSE k \in S : \A m \in S : m <= k].distance)]]]

\* distances[ctype] = empty.copy() (float16, all inf);
\* distances[ctype][mapping[from], mapping[to]] = connection.distance
DistanceMatrices(edges, ctypes, n) ==
    [c \in Idx(Len(ctypes)) |-> [i \in Idx(n) |-> [j \in Idx(n) |->
        LET S == {k \in 1 .. Len(edges) :
                     /\ edges[k].ctype = ctypes[c + 1]
                     /\ edges[k].from = i /\ edges[k].to = j}
        IN IF S = {} THEN Inf
           ELSE F16(edges[CHOOSE k \in S : \A m \in S : m <= k].distance)]]]

\* self.level.room_transfer_points: the points joined to a door centre
LevelTransferPoints(conns) ==
    {id \in DOMAIN conns :
        \/ \E k \in 1 .. Len(conns[id]) : conns[id][k].to = DoorCenter
        \/ \E k \in 1 .. Len(conns[DoorCenter]) : conns[DoorCenter][k].to = id}

\* self.level.arealocation_points[':nonpublic']: the points in the
\* nonpublic area location, here the part of the room beyond the stair
ArealocationPoints(built) ==
    {built[k].i : k \in {m \in 1 .. Len(built) : built[m].x > 2}}

RECURSIVE Filter(_, _)
Filter(t, set) ==
    IF Len(t) = 0 THEN <<>>
    ELSE IF Head(t) \in set THEN <<Head(t)>> \o Filter(Tail(t), set)
         ELSE Filter(Tail(t), set)

\* a test that misses a point added three times
DoubleAddedOnce(points) == Len(points) = Cardinality(Elems(points)) + 1

\* if len(self.points) != len(set_points)
DoubleAdded(points) == Len(points) # Cardinality(Elems(points))

\* GraphRoom.finish_build
finish_build ==
    LET points == [k \in 1 .. Len(built_points) |-> built_points[k].i]
        mapping == Mapping(built_points)
        edges == AllEdges(built_points, connections, mapping, 1)
        ctypes == FirstSeen(edges, <<>>)
    IN /\ ~compiled.done
       /\ compiled' =
            [done |-> TRUE,
             points |-> points,
             printed |-> IF DoubleAdded(points)
                         THEN <<"ERROR: POINTS DOUBLE-ADDED (ROOM)">>
                         ELSE <<>>,
             room_transfer_points |->
                 Filter(points, LevelTransferPoints(connections)),
             excludables |-> <<":nonpublic">>,
             excludable_points |->
                 [e \in {0} |-> [i \in Idx(Len(points)) |->
                     points[i + 1] \in ArealocationPoints(built_points)]],
             ctypes |-> ctypes,
             distances |-> DistanceMatrices(edges, ctypes, Len(points))]
       /\ UNCHANGED <<built_points, areas, connections, last_add, nconnect,
                    registered>>
       /\ UNCHANGED routerVars
       /\ UNCHANGED restVars

\* prepare_build returned True and build_areas has run
InitBuild ==
    /\ rooms = <<>>
    /\ router_cache = EmptyCache
    /\ calls = <<>>
    /\ built_points = <<>>
    /\ areas = InitialAreas
    /\ connections = [id \in PointIds |-> <<>>]
    /\ compiled = NotCompiled
    /\ last_add = NoAdd
    /\ nconnect = 0
    /\ registered = {}
    /\ RestIdle

AddPoint == \E coord \in Coords : add_point(coord)

FinishBuild == finish_build

\* SpecPoints: the points of a room are built (build_points calls add_point)
NextPoints == AddPoint

SpecPoints == InitBuild /\ [][NextPoints]_vars

\* the coordinate of the k-th point of the room whose connections are built:
\* the first on the stair, the others beyond it
PointCoord(k) == IF k = 1 THEN 2 ELSE 3

PointAt(k) == GraphPoint(PointCoord(k), k - 1)

\* self.areas after add_point has run on the first n points
RECURSIVE AreasAfter(_)
AreasAfter(n) ==
    IF n = 0 THEN InitialAreas
    ELSE [k \in DOMAIN InitialAreas |->
             AreaAddPoint(AreasAfter(n - 1)[k], PointAt(n))]

\* the room once add_point has appended n points
PointsBuilt(n) ==
    /\ built_points = [k \in 1 .. n |-> PointAt(k)]
    /\ areas = AreasAfter(n)
    /\ last_add = IF n = 0 THEN NoAdd
                  ELSE [coord |-> PointCoord(n), returned |-> <<PointAt(n)>>,
                        points_before |-> [k \in 1 .. (n - 1) |-> PointAt(k)],
                        areas_before |-> AreasAfter(n - 1)]
    /\ connections = [id \in Idx(n) \cup {DoorCenter} |-> <<>>]

\* SpecBuild: the points are built; connections are made, then finish_build
InitConnect ==
    /\ rooms = <<>>
    /\ router_cache = EmptyCache
    /\ calls = <<>>
    /\ \E n \in 0 .. MaxRoomPoints : PointsBuilt(n)
    /\ compiled = NotCompiled
    /\ nconnect = 0
    /\ registered = {}
    /\ RestIdle

NextBuild == Connect \/ ConnectOneWay \/ FinishBuild

SpecBuild == InitConnect /\ [][NextBuild]_vars

\* a built point list in which the k-th point was appended m more times
PointsDoubleAdded(n, k, m) ==
    /\ built_points = [j \in 1 .. n |-> PointAt(j)]
                          \o [j \in 1 .. m |-> PointAt(k)]
    /\ areas = AreasAfter(n)
    /\ last_add = NoAdd
    /\ connections = [id \in Idx(n) \cup {DoorCenter} |-> <<>>]

MaxAgain == 2

\* SpecFinish: finish_build on point lists with and without a point that
\* was appended more than once
InitFinish ==
    /\ rooms = <<>>
    /\ router_cache = EmptyCache
    /\ calls = <<>>
    /\ \E n \in 1 .. MaxRoomPoints :
          \E k \in 1 .. n, m \in 0 .. MaxAgain :
             /\ (m = 0 => k = 1)
             /\ PointsDoubleAdded(n, k, m)
    /\ compiled = NotCompiled
    /\ nconnect = 0
    /\ registered = {}
    /\ RestIdle

NextFinish == Connect \/ FinishBuild

SpecFinish == InitFinish /\ [][NextFinish]_vars

----------------------------------------------------------------------------
(* Compiled rooms the router is applied to *)

CTypes == {"walk", "stair"}
Groups == {":nonpublic", "g"}

PointPairs(n) == {pr \in Idx(n) \X Idx(n) : pr[1] < pr[2]}

\* a symmetric layer from the distances of its unordered pairs
Layer(n, e) ==
    [i \in Idx(n) |-> [j \in Idx(n) |->
        IF i = j THEN Inf
        ELSE IF i < j THEN e[<<i, j>>] ELSE e[<<j, i>>]]]

IsEmptyLayer(n, e) == \A pr \in PointPairs(n) : e[pr] = Inf

\* the walk distances a pair may have: the first three points are joined
\* freely, a further point hangs by a walk of 2 on the point before it
WalkDists(pr) ==
    IF pr[2] <= 2 THEN {Inf, 2, MaxDist}
    ELSE IF pr[2] = pr[1] + 1 THEN {2} ELSE {Inf}

WalkLayers(n) ==
    {e \in [PointPairs(n) -> {Inf, 2, MaxDist}] :
        \A pr \in PointPairs(n) : e[pr] \in WalkDists(pr)}

\* a stair of 2 units between points 0 and 1, or none
StairLayers(n) ==
    {[pr \in PointPairs(n) |-> IF pr = <<0, 1>> THEN d ELSE Inf] : d \in {Inf, 2}}

\* the ctypes tuple and layer stack finish_build produces for the layers
LayerStacks(n, w, s) ==
    IF IsEmptyLayer(n, w) /\ IsEmptyLayer(n, s) THEN {}
    ELSE IF IsEmptyLayer(n, s)
         THEN {[ctypes |-> <<"walk">>, distances |-> [c \in {0} |-> Layer(n, w)]]}
    ELSE IF IsEmptyLayer(n, w)
         THEN {[ctypes |-> <<"stair">>, distances |-> [c \in {0} |-> Layer(n, s)]]}
    ELSE {[ctypes |-> <<"walk", "stair">>,
           distances |-> [c \in {0, 1} |-> IF c = 0 THEN Layer(n, w) ELSE Layer(n, s)]],
          [ctypes |-> <<"stair", "walk">>,
           distances |-> [c \in {0, 1} |-> IF c = 0 THEN Layer(n, s) ELSE Layer(n, w)]]}

\* excludables and the membership matrix
Memberships(n) ==
    {[excludables |-> <<":nonpublic", "g">>,
      excludable_points |-> [e \in {0, 1} |-> [p \in Idx(n) |->
                                IF e = 0 THEN p \in np ELSE p \in g]]] :
        np \in SUBSET {0, 1}, g \in SUBSET {1, 2}}
    \cup
    {[excludables |-> <<"g">>,
      excludable_points |-> [e \in {0} |-> [p \in Idx(n) |-> p \in g]]] :
        g \in SUBSET {1, 2}}

MakeRoom(mtime, i, n, stack, m) ==
    [mtime |-> mtime, i |-> i, points |-> [k \in 1 .. n |-> k - 1],
     ctypes |-> stack.ctypes, distances |-> stack.distances,
     excludables |-> m.excludables, excludable_points |-> m.excludable_points]

RouterRooms ==
    {MakeRoom(1, 0, NPoints, stack, m) :
        stack \in UNION {LayerStacks(NPoints, w, s) :
                            w \in WalkLayers(NPoints), s \in StairLayers(NPoints)},
        m \in Memberships(NPoints)}

----------------------------------------------------------------------------
(* SpecRouter: build_router applied once to every enumerated room *)

InitRouter ==
    /\ rooms \in {<<room>> : room \in RouterRooms}
    /\ router_cache = EmptyCache
    /\ calls = <<>>
    /\ BuildIdle
    /\ RestIdle

Route ==
    /\ Len(calls) = 0
    /\ \E allowed_ctypes \in SUBSET CTypes, allow_nonpublic \in BOOLEAN,
          avoid \in SUBSET Groups, include \in SUBSET Groups :
          build_router(1, allowed_ctypes, allow_nonpublic, avoid, include)

NextRouter == Route

SpecRouter == InitRouter /\ [][NextRouter]_vars

----------------------------------------------------------------------------
(* Spec: the cache protocol.  GraphRoom instances come into being          *)
(* (constructed and compiled, or unserialized) with the mtime of their     *)
(* graph and their index i; build_router is called on any of them.  The    *)
(* router_cache dict belongs to the class and outlives every instance.     *)

\* the scenario room: a stair of 2 between points 0 and 1, a walk 0-2-1 of 2+3
ScenarioWalk(n) ==
    [pr \in PointPairs(n) |->
        IF pr = <<0, 2>> THEN 2 ELSE IF pr = <<1, 2>> THEN 3 ELSE Inf]

ScenarioStair(n) == [pr \in PointPairs(n) |-> IF pr = <<0, 1>> THEN 2 ELSE Inf]

ScenarioStack(n) ==
    [ctypes |-> <<"walk", "stair">>,
     distances |-> [c \in {0, 1} |->
         IF c = 0 THEN Layer(n, ScenarioWalk(n)) ELSE Layer(n, ScenarioStair(n))]]

\* a second room: walk edges only, 0-1 of 3
PlainStack(n) ==
    [ctypes |-> <<"walk">>,
     distances |-> [c \in {0} |->
         Layer(n, [pr \in PointPairs(n) |-> IF pr = <<0, 1>> THEN 3 ELSE 2])]]

TaggedMembership(n, np, g) ==
    [excludables |-> <<":nonpublic", "g">>,
     excludable_points |-> [e \in {0, 1} |-> [p \in Idx(n) |->
                               IF e = 0 THEN p \in np ELSE p \in g]]]

\* room i of the graph written at mtime: the rooms of a graph differ, and a
\* rebuild changes them
GraphRoomAt(mtime, i) ==
    IF (mtime + i) % 2 = 1
    THEN MakeRoom(mtime, i, NPoints, ScenarioStack(NPoints),
                  TaggedMembership(NPoints, {0}, {1}))
    ELSE MakeRoom(mtime, i, NPoints, PlainStack(NPoints),
                  TaggedMembership(NPoints, {}, {2}))

\* the routing options of the callers: the default, without stairs, with
\* nonpublic areas allowed, avoiding the group "g"
RouteOptions ==
    {[allowed_ctypes |-> {"walk", "stair"}, allow_nonpublic |-> FALSE, avoid |-> {}],
     [allowed_ctypes |-> {"walk"}, allow_nonpublic |-> FALSE, avoid |-> {}],
     [allowed_ctypes |-> {"walk", "stair"}, allow_nonpublic |-> TRUE, avoid |-> {}],
     [allowed_ctypes |-> {"walk", "stair"}, allow_nonpublic |-> FALSE, avoid |-> {"g"}]}

\* the list of instances carries no order of its own: instances are listed
\* by graph and index
Listed(room) ==
    IF Len(rooms) = 0 THEN TRUE
    ELSE \/ rooms[Len(rooms)].mtime < room.mtime
         \/ /\ rooms[Len(rooms)].mtime = room.mtime
            /\ rooms[Len(rooms)].i <= room.i

Init ==
    /\ rooms = <<>>
    /\ router_cache = EmptyCache
    /\ calls = <<>>
    /\ BuildIdle
    /\ RestIdle

\* GraphRoom.__init__ / unserialize: a new instance; the class attribute
\* router_cache is not touched
NewRoom ==
    /\ Len(rooms) < MaxRooms
    /\ \E mtime \in 1 .. MaxMtime, i \in 0 .. MaxRoomId :
          /\ Listed(GraphRoomAt(mtime, i))
          /\ rooms' = Append(rooms, GraphRoomAt(mtime, i))
    /\ UNCHANGED <<router_cache, calls>>
    /\ UNCHANGED buildVars
    /\ UNCHANGED restVars

Call ==
    /\ Len(calls) < MaxCalls
    /\ \E r \in 1 .. Len(rooms) :
          \E o \in RouteOptions :
             build_router(r, o.allowed_ctypes, o.allow_nonpublic, o.avoid, {})

Next == NewRoom \/ Call

Spec == Init /\ [][Next]_vars

SameArgs(a, b) ==
    /\ a.allowed_ctypes = b.allowed_ctypes
    /\ a.allow_nonpublic = b.allow_nonpublic
    /\ a.avoid = b.avoid
    /\ a.include = b.include

----------------------------------------------------------------------------
\* C1: a build_router call whose room and arguments are those of an earlier
\* call returns the router that earlier call returned (the same cache entry,
\* equal shortest_paths and predecessors) and does not run _build_router.
C1_Memoized ==
    \A a, b \in 1 .. Len(calls) :
        (a < b /\ calls[a].room = calls[b].room /\ SameArgs(calls[a], calls[b]))
        => /\ ~calls[b].built
           /\ calls[b].serial = calls[a].serial
           /\ calls[b].router = calls[a].router

C1_Witness ==
    \E a, b \in 1 .. Len(calls) :
        /\ a < b /\ calls[a].room = calls[b].room /\ SameArgs(calls[a], calls[b])
        /\ calls[a].built /\ ~calls[b].built

\* C2: a call on a room never returns a router computed against a room of a
\* graph with another mtime; the first call made under an mtime is a miss.
C2_NoReuseAcrossRebuild ==
    \A b \in 1 .. Len(calls) :
        /\ rooms[calls[b].owner].mtime = rooms[calls[b].room].mtime
        /\ (\A a \in 1 .. (b - 1) :
                rooms[calls[a].room].mtime # rooms[calls[b].room].mtime)
           => calls[b].built

\* a room of mtime 1 was routed, then a room of the rebuilt graph (a later
\* instance, a higher mtime, the same index and arguments): a miss
C2_Witness ==
    \E a, b \in 1 .. Len(calls) :
        /\ a < b /\ calls[a].room < calls[b].room
        /\ rooms[calls[a].room].mtime < rooms[calls[b].room].mtime
        /\ rooms[calls[a].room].i = rooms[calls[b].room].i
        /\ SameArgs(calls[a], calls[b])
        /\ calls[a].ctypes = calls[b].ctypes
        /\ calls[a].avoid_i = calls[b].avoid_i
        /\ calls[b].built /\ calls[b].owner = calls[b].room

\* C3: the router a call returns was computed by a call on the same
\* GraphRoom instance (the cache is owned per room).
C3_PerRoomCache ==
    \A b \in 1 .. Len(calls) : calls[b].owner = calls[b].room

----------------------------------------------------------------------------
(* Claims about the router, checked under SpecRouter *)

RoomOf(c) == rooms[c.room]

IsNonpublic(room, p) ==
    /\ ":nonpublic" \in Elems(room.excludables)
    /\ room.excludable_points[IndexOf(room.excludables, ":nonpublic")][p]

\* members of the groups named in set
InGroups(room, set, p) ==
    \E k \in 1 .. Len(room.excludables) :
        room.excludables[k] \in set /\ room.excludable_points[k - 1][p]

\* the layer of ctype name, Inf everywhere when the room has none
LayerOf(room, name) ==
    IF name \in Elems(room.ctypes)
    THEN room.distances[IndexOf(room.ctypes, name)]
    ELSE Layer(NumPoints(room), [pr \in PointPairs(NumPoints(room)) |-> Inf])

\* the cheapest path from i to j over edges w that avoids the points seen
RECURSIVE CheapestPath(_, _, _, _)
CheapestPath(w, i, j, seen) ==
    IF i = j THEN 0
    ELSE SetMin({Inf} \cup
           {Add(IF IsNull(w[i][k]) THEN Inf ELSE w[i][k],
                CheapestPath(w, k, j, seen \cup {k})) :
              k \in (DOMAIN w) \ seen})

NoPenalty(c) ==
    Factors(RoomOf(c), c.allow_nonpublic, c.avoid_i, c.include_i)
        = OnesLike(RoomOf(c))

IsScenarioRoom(room) ==
    /\ LayerOf(room, "walk") = Layer(NumPoints(room), ScenarioWalk(NumPoints(room)))
    /\ LayerOf(room, "stair") = Layer(NumPoints(room), ScenarioStair(NumPoints(room)))

\* the stair between 0 and 1 is the only connection of point 0
StairOnlyRoom(room) ==
    /\ LayerOf(room, "stair")[0][1] = 2
    /\ \A j \in Idx(NumPoints(room)) : LayerOf(room, "walk")[0][j] = Inf

\* C4: the collapsed distance of a pair is the minimum over the layers of
\* distance x (1 if the layer's ctype is allowed, else 1000); in the scenario
\* room the distance from 0 to 1 is 5 with {walk} and 2 with {walk, stair};
\* a stair that is the only connection is used at 1000 x when disallowed.
C4_SoftExclusion ==
    \A b \in 1 .. Len(calls) :
        LET c == calls[b]
            room == RoomOf(c)
            P == Idx(NumPoints(room))
        IN /\ \A i, j \in P :
                CollapsedDistances(room, c.ctypes)[i][j]
                  = SetMin({Mul(room.distances[k - 1][i][j],
                                IF room.ctypes[k] \in c.allowed_ctypes
                                THEN 1 ELSE SoftFactor) :
                              k \in 1 .. Len(room.ctypes)})
           /\ (IsScenarioRoom(room) /\ NoPenalty(c) /\ c.allowed_ctypes = {"walk"})
                => c.router.shortest_paths[0][1] = 5
           /\ (IsScenarioRoom(room) /\ NoPenalty(c)
                    /\ c.allowed_ctypes = {"walk", "stair"})
                => c.router.shortest_paths[0][1] = 2
           /\ (StairOnlyRoom(room) /\ NoPenalty(c) /\ "stair" \notin c.allowed_ctypes)
                => c.router.shortest_paths[0][1] = 2 * SoftFactor

C4_Witness ==
    \E b \in 1 .. Len(calls) :
        /\ IsScenarioRoom(RoomOf(calls[b])) /\ NoPenalty(calls[b])
        /\ calls[b].allowed_ctypes = {"walk"}
        /\ calls[b].router.shortest_paths[0][1] = 5
        /\ calls[b].router.predecessors[0][1] = 2

\* C5: with allow_nonpublic false and ':nonpublic' not included, a
\* ':nonpublic' point that is in no included group is unreachable: the
\* shortest path between it and any other point is infinite.
C5_HardExclusion ==
    \A b \in 1 .. Len(calls) :
        LET c == calls[b]
            room == RoomOf(c)
            P == Idx(NumPoints(room))
        IN (~c.allow_nonpublic /\ ":nonpublic" \notin c.include)
           => \A p \in P :
                (IsNonpublic(room, p) /\ ~InGroups(room, c.include, p))
                => \A q \in P \ {p} :
                      /\ c.router.shortest_paths[p][q] = Inf
                      /\ c.router.shortest_paths[q][p] = Inf

\* C6: with allow_nonpublic true and empty avoid and include, the weight of
\* a pair is 1000 x its collapsed distance when one of its points is
\* ':nonpublic' and the collapsed distance otherwise; the shortest paths are
\* the cheapest paths under these weights, so a nonpublic point with an edge
\* stays reachable.
C6_SoftNonpublic ==
    \A b \in 1 .. Len(calls) :
        LET c == calls[b]
            room == RoomOf(c)
            P == Idx(NumPoints(room))
            d == CollapsedDistances(room, c.ctypes)
            w == WeightedMatrix(room, c.ctypes, c.allow_nonpublic,
                                c.avoid_i, c.include_i)
            expected == [i \in P |-> [j \in P |->
                            IF IsNonpublic(room, i) \/ IsNonpublic(room, j)
                            THEN Mul(d[i][j], SoftFactor) ELSE d[i][j]]]
        IN (c.allow_nonpublic /\ c.avoid = {} /\ c.include = {})
           => /\ w = expected
              /\ \A i, j \in P :
                    c.router.shortest_paths[i][j]
                        = CheapestPath(expected, i, j, {i})
              /\ \A i, j \in P :
                    (i # j /\ d[i][j] # Inf)
                    => c.router.shortest_paths[i][j] < Inf

\* a nonpublic point is linked to a public one; the way through it is dearer
\* than the public way round, which the router takes
C6_Witness ==
    \E b \in 1 .. Len(calls) :
        LET c == calls[b]
            room == RoomOf(c)
            d == CollapsedDistances(room, c.ctypes)
        IN /\ c.allow_nonpublic /\ c.avoid = {} /\ c.include = {}
           /\ IsNonpublic(room, 1) /\ ~IsNonpublic(room, 0) /\ ~IsNonpublic(room, 2)
           /\ d[0][1] = 2 /\ d[0][2] = 2 /\ d[1][2] = 3
           /\ c.router.shortest_paths[0][1] = 2 * SoftFactor
           /\ c.router.shortest_paths[0][2] = 2

\* C7: a group in both avoid and include behaves as if only included: the
\* router equals the one built with the group taken out of avoid, and every
\* member of an included group has factor 1 on its whole row and column.
C7_IncludeDominates ==
    \A b \in 1 .. Len(calls) :
        LET c == calls[b]
            room == RoomOf(c)
            P == Idx(NumPoints(room))
            f == Factors(room, c.allow_nonpublic, c.avoid_i, c.include_i)
        IN /\ \A G \in c.avoid \cap c.include :
                c.router = _build_router(room, c.ctypes, c.allow_nonpublic,
                               IndicesIn(room.excludables, c.avoid \ {G}),
                               c.include_i)
           /\ \A p \in P :
                InGroups(room, c.include, p)
                => \A j \in P : f[p][j] = 1 /\ f[j][p] = 1

\* "g" is avoided and included; point 1 is in it and is linked to point 0;
\* avoiding "g" alone would have changed the router
C7_Witness ==
    \E b \in 1 .. Len(calls) :
        LET c == calls[b]
            room == RoomOf(c)
        IN /\ "g" \in c.avoid /\ "g" \in c.include
           /\ InGroups(room, {"g"}, 1)
           /\ CollapsedDistances(room, c.ctypes)[0][1] # Inf
           /\ c.router.shortest_paths[0][1] = CollapsedDistances(room, c.ctypes)[0][1]
           /\ c.router # _build_router(room, c.ctypes, c.allow_nonpublic,
                                       c.avoid_i, <<>>)

\* C8: shortest_paths satisfies the triangle inequality.
C8_Triangle ==
    \A b \in 1 .. Len(calls) :
        LET sp == calls[b].router.shortest_paths
        IN \A i, j, k \in DOMAIN sp :
              sp[i][k] <= Add(sp[i][j], sp[j][k])

\* a pair without a direct edge is joined through a third point
C8_Witness ==
    \E b \in 1 .. Len(calls) :
        LET c == calls[b]
            sp == c.router.shortest_paths
            w == WeightedMatrix(RoomOf(c), c.ctypes, c.allow_nonpublic,
                                c.avoid_i, c.include_i)
        IN \E i, j, k \in DOMAIN sp :
              /\ i # j /\ j # k /\ i # k
              /\ IsNull(w[i][k])
              /\ sp[i][k] < Inf
              /\ sp[i][k] = sp[i][j] + sp[j][k]

----------------------------------------------------------------------------
(* Claims about the build: C9 under SpecBuild, C10 under SpecPoints *)

\* the connection registered from point id from to point id to, if any
ConnectionsBetween(from, to) ==
    {connections[from][k] : k \in {m \in 1 .. Len(connections[from]) :
                                      connections[from][m].to = to}}

RoomPointIds == {built_points[k].i : k \in 1 .. Len(built_points)}

\* every connection between points of the room is registered in both
\* directions with the same distance and ctype
SymmetricRegistration ==
    \A from, to \in RoomPointIds :
        \A e \in ConnectionsBetween(from, to) :
            \E back \in ConnectionsBetween(to, from) :
                back.distance = e.distance /\ back.ctype = e.ctype

\* C9 as stated: after finish_build every entry is non-negative, the layers
\* are symmetric when connections were registered both ways, and an entry is
\* the distance of a connection of that ctype between the two points, or
\* infinity when there is none.
C9_MatricesAsStated ==
    compiled.done =>
        \A c \in DOMAIN compiled.distances :
            \A i, j \in Idx(Len(compiled.points)) :
                LET entry == compiled.distances[c][i][j]
                    conns == {e \in ConnectionsBetween(compiled.points[i + 1],
                                                       compiled.points[j + 1]) :
                                 e.ctype = compiled.ctypes[c + 1]}
                IN /\ entry >= 0
                   /\ SymmetricRegistration => entry = compiled.distances[c][j][i]
                   /\ IF conns = {} THEN entry = Inf
                      ELSE \E e \in conns : entry = e.distance

\* C9 amended: the same, with the entry being the connection's distance as
\* float16 stores it (rounded to 11 significant bits, infinity from 65520).
C9_Matrices ==
    compiled.done =>
        \A c \in DOMAIN compiled.distances :
            \A i, j \in Idx(Len(compiled.points)) :
                LET entry == compiled.distances[c][i][j]
                    conns == {e \in ConnectionsBetween(compiled.points[i + 1],
                                                       compiled.points[j + 1]) :
                                 e.ctype = compiled.ctypes[c + 1]}
                IN /\ entry >= 0
                   /\ SymmetricRegistration => entry = compiled.distances[c][j][i]
                   /\ IF conns = {} THEN entry = Inf
                      ELSE \E e \in conns : entry = F16(e.distance)

\* two points joined both ways (a distance that float16 rounds), and one of
\* them joined to the door centre, which is no point of the room
C9_Witness ==
    /\ compiled.done
    /\ SymmetricRegistration
    /\ Len(compiled.points) = 2
    /\ \E c \in DOMAIN compiled.distances :
          /\ compiled.distances[c][0][1] = F16Precision
          /\ compiled.distances[c][1][0] = F16Precision
          /\ \E e \in ConnectionsBetween(compiled.points[1], compiled.points[2]) :
                e.distance = F16Precision + 1
    /\ \E id \in RoomPointIds : ConnectionsBetween(id, DoorCenter) # {}

\* C10: every built point passed the containment test of the clearance
\* polygon; add_point on a rejected coordinate returns an empty list and
\* leaves the built points and the areas as they were; on an accepted one it
\* appends one point and offers it to every area.
C10_PointsInsideClear ==
    /\ \A k \in 1 .. Len(built_points) : built_points[k].x \in MplClear
    /\ last_add.coord # -1 =>
          IF last_add.coord \in MplClear
          THEN /\ Len(last_add.returned) = 1
               /\ last_add.returned[1].x = last_add.coord
               /\ built_points = Append(last_add.points_before, last_add.returned[1])
               /\ DOMAIN areas = DOMAIN last_add.areas_before
               /\ \A k \in DOMAIN areas :
                     areas[k] = AreaAddPoint(last_add.areas_before[k],
                                             last_add.returned[1])
          ELSE /\ last_add.returned = <<>>
               /\ built_points = last_add.points_before
               /\ areas = last_add.areas_before

\* a coordinate outside the polygon was offered after a point had been added
C10_Witness ==
    /\ last_add.coord # -1
    /\ last_add.coord \notin MplClear
    /\ last_add.returned = <<>>
    /\ Len(built_points) >= 1
    /\ \E k \in DOMAIN areas : Len(areas[k].points) >= 1

----------------------------------------------------------------------------
(* Routing operations on a compiled room.  A method is a function of self  *)
(* and its arguments that gives the returned value and self afterwards.    *)

\* stack.argmin() that takes the last smallest entry
argminLast(stack) ==
    CHOOSE c \in DOMAIN stack :
        /\ \A k \in DOMAIN stack : stack[c] <= stack[k]
        /\ \A k \in DOMAIN stack : stack[k] = stack[c] => k <= c

\* stack.argmin(): the index of the first smallest entry
argmin(stack) ==
    CHOOSE c \in DOMAIN stack :
        /\ \A k \in DOMAIN stack : stack[c] <= stack[k]
        /\ \A k \in DOMAIN stack : stack[k] = stack[c] => c <= k

\* stack = self.distances[:, from_i, to_i]: a view of the layers
StackView(room, from_i, to_i) ==
    [c \in Idx(Len(room.ctypes)) |-> room.distances[c][from_i][to_i]]

\* the view sorted in place: the c-th layer gets the c-th smallest entry
SortedView(stack) ==
    [c \in DOMAIN stack |->
        CHOOSE v \in {stack[k] : k \in DOMAIN stack} :
            /\ Cardinality({k \in DOMAIN stack : stack[k] < v}) <= c
            /\ Cardinality({k \in DOMAIN stack : stack[k] <= v}) > c]

\* a get_connection that sorts the view before it takes the first entry
get_connectionSorting(room, from_i, to_i) ==
    LET stack == SortedView(StackView(room, from_i, to_i))
    IN [result |-> [from |-> room.points[from_i + 1],
                    to |-> room.points[to_i + 1],
                    distance |-> stack[0], ctype |-> room.ctypes[1]],
        self |-> [room EXCEPT !.distances =
                     [c \in DOMAIN @ |->
                         [@[c] EXCEPT ![from_i][to_i] = stack[c]]]]]

\* GraphRoom.get_connection
get_connection(room, from_i, to_i) ==
    LET stack == StackView(room, from_i, to_i)
        min_i == argmin(stack)
    IN [result |-> [from |-> room.points[from_i + 1],
                    to |-> room.points[to_i + 1],
                    distance |-> stack[min_i],
                    ctype |-> room.ctypes[min_i + 1]],
        self |-> room]

\* GraphArea.contains_point
AreaContainsPoint(area, point) == contains_point(area.mpl_clear, point)

Distance(a, b) == IF a < b THEN b - a ELSE a - b

\* GraphArea.connected_points: the points of the area with their direct
\* distance from the coordinate
AreaConnectedPoints(area, point, mode) ==
    {<<area.points[k], Distance(PointCoord(area.points[k] + 1), point)>> :
        k \in 1 .. Len(area.points)}

\* connections.update(...): a later area replaces the entries of an earlier
RECURSIVE UpdateAll(_, _, _, _)
UpdateAll(as, point, mode, found) ==
    IF Len(as) = 0 THEN found
    ELSE IF AreaContainsPoint(Head(as), point)
         THEN LET new == AreaConnectedPoints(Head(as), point, mode)
              IN UpdateAll(Tail(as), point, mode,
                     {c \in found : \A n \in new : n[1] # c[1]}
                         \cup new)
         ELSE UpdateAll(Tail(as), point, mode, found)

\* GraphRoom.connected_points
connected_points(room, point, mode) ==
    [result |-> UpdateAll(room.areas, point, mode, {}), self |-> room]

\* Python's None
None == [none |-> TRUE]

\* GraphArea.check_connection: the direct connection there, if the straight
\* line between the coordinates stays in the area
AreaCheckConnection(area, from_point, to_point) ==
    IF \A x \in Coords :
          (x >= from_point /\ x <= to_point) \/ (x >= to_point /\ x <= from_point)
          => contains_point(area.mpl_clear, x)
    THEN [there |-> [distance |-> Distance(from_point, to_point)]]
    ELSE [there |-> None]

RECURSIVE FirstConnection(_, _, _)
FirstConnection(as, from_point, to_point) ==
    IF Len(as) = 0 THEN None
    ELSE IF /\ AreaContainsPoint(Head(as), from_point)
            /\ AreaContainsPoint(Head(as), to_point)
            /\ AreaCheckConnection(Head(as), from_point, to_point).there # None
         THEN AreaCheckConnection(Head(as), from_point, to_point).there
         ELSE FirstConnection(Tail(as), from_point, to_point)

\* GraphRoom.check_connection
check_connection(room, from_point, to_point) ==
    [result |-> FirstConnection(room.areas, from_point, to_point),
     self |-> room]

\* GraphRoom.contains_point
room_contains_point(room, point) ==
    [result |-> contains_point(room.mpl_clear, point), self |-> room]

Modes == {"orig", "dest"}

\* a compiled room as the graph holds it
CompiledRoomAt(i) ==
    [f \in DOMAIN GraphRoomAt(1, i)
          \cup {"room_transfer_points", "areas", "mpl_clear"} |->
        IF f = "room_transfer_points" THEN <<0>>
        ELSE IF f = "areas" THEN AreasAfter(NPoints)
        ELSE IF f = "mpl_clear" THEN MplClear
        ELSE GraphRoomAt(1, i)[f]]

QueryVarsOnly ==
    /\ UNCHANGED <<level, threads, ring, manager>>
    /\ UNCHANGED buildVars
    /\ UNCHANGED <<router_cache, calls>>

\* the operation has returned: the value goes to the caller, self stays
\* the room of the graph
Returns(r, op, args, ret) ==
    /\ query' = [op |-> op, room |-> r, args |-> args, result |-> ret.result]
    /\ rooms' = [rooms EXCEPT ![r] = ret.self]
    /\ QueryVarsOnly

GetConnection ==
    \E r \in 1 .. Len(rooms) :
       \E from_i \in Idx(NumPoints(rooms[r])), to_i \in Idx(NumPoints(rooms[r])) :
          Returns(r, "get_connection", <<from_i, to_i>>,
                  get_connection(rooms[r], from_i, to_i))

ContainsPoint ==
    \E r \in 1 .. Len(rooms), point \in Coords :
       Returns(r, "contains_point", <<point>>,
               room_contains_point(rooms[r], point))

ConnectedPoints ==
    \E r \in 1 .. Len(rooms), point \in Coords, mode \in Modes :
       Returns(r, "connected_points", <<point, mode>>,
               connected_points(rooms[r], point, mode))

CheckConnection ==
    \E r \in 1 .. Len(rooms), from_point \in Coords, to_point \in Coords :
       Returns(r, "check_connection", <<from_point, to_point>>,
               check_connection(rooms[r], from_point, to_point))

\* SpecQuery: the graph is loaded; the routing operations are called in
\* any order
InitQuery ==
    /\ \E i \in 0 .. MaxRoomId : rooms = <<CompiledRoomAt(i)>>
    /\ router_cache = EmptyCache
    /\ calls = <<>>
    /\ BuildIdle
    /\ RestIdle

NextQuery ==
    Call \/ GetConnection \/ ContainsPoint \/ ConnectedPoints \/ CheckConnection

SpecQuery == InitQuery /\ [][NextQuery]_vars

\* the room with the ids the graph gave its points
WithIds(room) ==
    [room EXCEPT !.points = [k \in 1 .. Len(@) |-> @[k] + Len(@)]]

\* SpecConnection: get_connection on every pair of every enumerated room
InitConnection ==
    /\ rooms \in {<<WithIds(room)>> : room \in RouterRooms}
    /\ router_cache = EmptyCache
    /\ calls = <<>>
    /\ BuildIdle
    /\ RestIdle

NextConnection == GetConnection

SpecConnection == InitConnection /\ [][NextConnection]_vars

----------------------------------------------------------------------------
(* SpecConcurrent: threads of one process call build_router on the same    *)
(* room.  The interpreter runs one bytecode at a time, so dict.get and the *)
(* dict assignment are atomic; a thread may be suspended between them.     *)

MaxThreads == 2

Threads == 1 .. Len(threads)

\* the arguments of thread t, projected on the room as build_router does
ProjectedArgs(room, o) ==
    [ctypes |-> IndicesIn(room.ctypes, o.allowed_ctypes),
     allow_nonpublic |-> o.allow_nonpublic,
     avoid |-> IndicesIn(room.excludables, o.avoid),
     include |-> IndicesIn(room.excludables, {})]

KeyOf(room, o) ==
    LET a == ProjectedArgs(room, o)
    IN CacheKey(room.mtime, room.i, a.ctypes, a.allow_nonpublic, a.avoid,
                a.include)

RouterOf(room, o) ==
    LET a == ProjectedArgs(room, o)
    IN _build_router(room, a.ctypes, a.allow_nonpublic, a.avoid, a.include)

ConcurrentVarsOnly ==
    /\ UNCHANGED <<rooms, calls>>
    /\ UNCHANGED buildVars
    /\ UNCHANGED <<level, query, ring, manager>>

\* roomrouter = self.router_cache.get(cache_key); a hit returns at once
CacheGet(t) ==
    /\ threads[t].pc = "start"
    /\ \E cache_key \in {KeyOf(rooms[1], threads[t].o)} :
          threads' = [threads EXCEPT ![t] =
              IF CacheHit(router_cache, cache_key)
              THEN [@ EXCEPT !.pc = "done", !.key = cache_key, !.hit = TRUE,
                             !.roomrouter = router_cache[cache_key].router]
              ELSE [@ EXCEPT !.pc = "build", !.key = cache_key]]
    /\ UNCHANGED router_cache
    /\ ConcurrentVarsOnly

\* roomrouter = self._build_router(ctypes, allow_nonpublic, avoid, include)
BuildRouter(t) ==
    /\ threads[t].pc = "build"
    /\ threads' = [threads EXCEPT ![t] =
           [@ EXCEPT !.pc = "store",
                     !.roomrouter = RouterOf(rooms[1], threads[t].o)]]
    /\ UNCHANGED router_cache
    /\ ConcurrentVarsOnly

\* self.router_cache[cache_key] = roomrouter; return roomrouter
StoreRouter(t) ==
    /\ threads[t].pc = "store"
    /\ router_cache' = CacheStore(router_cache, threads[t].key,
                            [router |-> threads[t].roomrouter, owner |-> 1,
                             serial |-> t])
    /\ threads' = [threads EXCEPT ![t] = [@ EXCEPT !.pc = "done"]]
    /\ ConcurrentVarsOnly

NoRouter == [shortest_paths |-> <<>>, predecessors |-> <<>>]

InitConcurrent ==
    /\ \E i \in 0 .. MaxRoomId : rooms = <<GraphRoomAt(1, i)>>
    /\ router_cache = EmptyCache
    /\ calls = <<>>
    /\ BuildIdle
    /\ level = NoLevel
    /\ query = NoQuery
    /\ ring = NoRing
    /\ manager = NoManager
    /\ threads \in [1 .. MaxThreads ->
                       {[pc |-> "start", o |-> o, key |-> "", hit |-> FALSE,
                         roomrouter |-> NoRouter] : o \in RouteOptions}]

NextConcurrent ==
    \E t \in Threads : CacheGet(t) \/ BuildRouter(t) \/ StoreRouter(t)

SpecConcurrent == InitConcurrent /\ [][NextConcurrent]_vars

\* C14: whatever the interleaving, each build_router call returns the
\* router the sequential computation gives for its arguments; once all
\* calls have returned the cache holds one entry for each key used, and an
\* entry is never changed or removed by a call with another key.
C14_ConcurrentSafe ==
    /\ [](/\ \A t \in Threads :
                threads[t].pc = "done"
                => threads[t].roomrouter = RouterOf(rooms[1], threads[t].o)
          /\ \A t \in Threads :
                threads[t].key \in DOMAIN router_cache
                => router_cache[threads[t].key].router
                       = RouterOf(rooms[1], threads[t].o)
          /\ (\A t \in Threads : threads[t].pc = "done")
                => DOMAIN router_cache = {threads[t].key : t \in Threads})
    /\ [][\A k \in DOMAIN router_cache :
             /\ k \in DOMAIN router_cache'
             /\ router_cache'[k].router = router_cache[k].router]_vars

\* two calls with one key that both missed and both computed, beside none
C14_Witness ==
    /\ Len(threads) = 2
    /\ \A t \in Threads : threads[t].pc = "done" /\ ~threads[t].hit
    /\ threads[1].key = threads[2].key
    /\ Cardinality(DOMAIN router_cache) = 1

----------------------------------------------------------------------------
(* _add_ring.  A ring is the sequence of turn directions get_coords_angles *)
(* yields for its coordinates; the k-th coordinate lies at k, inside the   *)
(* clear geometry the ring was cut from.  within is the set of pairs of    *)
(* coordinates whose straight segment lies within self.clear_geometry.     *)

MaxRing == 4

RingPairs(n) == {{a, b} : a \in 1 .. n, b \in 1 .. n} \ {{a} : a \in 1 .. n}

\* LineString((a, b)).within(self.clear_geometry)
Within(within, a, b) == {a, b} \in within

NoCoords == [coords |-> <<>>, skipped |-> FALSE, can_delete_last |-> FALSE]

\* the loop over get_coords_angles(geom), from the k-th coordinate on
RECURSIVE RingLoop(_, _, _, _, _)
RingLoop(geom, want_left, within, k, st) ==
    IF k > Len(geom) THEN st
    ELSE IF geom[k] # want_left
         THEN RingLoop(geom, want_left, within, k + 1,
                       [st EXCEPT !.skipped = TRUE])
    ELSE IF /\ ~st.skipped /\ st.can_delete_last /\ Len(st.coords) >= 2
            /\ Within(within, st.coords[Len(st.coords) - 1], k)
         THEN RingLoop(geom, want_left, within, k + 1,
                       [st EXCEPT !.coords[Len(st.coords)] = k])
    ELSE RingLoop(geom, want_left, within, k + 1,
                  [coords |-> Append(st.coords, k),
                   can_delete_last |-> ~st.skipped,
                   skipped |-> FALSE])

\* _add_ring without the test that closes the ring
RingCoordsOpen(geom, want_left, within) ==
    RingLoop(geom, want_left, within, 1, NoCoords).coords

\* the coordinates _add_ring hands to add_point
RingCoords(geom, want_left, within) ==
    LET st == RingLoop(geom, want_left, within, 1, NoCoords)
        n == Len(st.coords)
    IN IF /\ ~st.skipped /\ st.can_delete_last /\ n >= 3
          /\ Within(within, st.coords[n - 1], st.coords[1])
       THEN SubSeq(st.coords, 1, n - 1)
       ELSE st.coords

\* for coord in coords: points += self.add_point(coord)
RECURSIVE AddPoints(_, _)
AddPoints(coords, st) ==
    IF Len(coords) = 0 THEN st
    ELSE LET coord == Head(coords)
             point == GraphPoint(coord, Len(st.built))
             call == [coord |-> coord, returned |-> <<>>,
                      points_before |-> st.built, areas_before |-> st.areas]
         IN IF ~contains_point(MplClear, coord)
            THEN AddPoints(Tail(coords), [st EXCEPT !.last = call])
            ELSE AddPoints(Tail(coords),
                     [built |-> Append(st.built, point),
                      areas |-> [k \in DOMAIN st.areas |->
                                    AreaAddPoint(st.areas[k], point)],
                      last |-> [call EXCEPT !.returned = <<point>>],
                      points |-> Append(st.points, point)])

\* GraphRoom._add_ring
_add_ring ==
    /\ ring.pc = "start"
    /\ ~compiled.done
    /\ \E coords \in {RingCoords(ring.geom, ring.want_left, ring.within)} :
       \E st \in {AddPoints(coords, [built |-> built_points, areas |-> areas,
                                      last |-> last_add, points |-> <<>>])} :
          /\ built_points' = st.built
          /\ areas' = st.areas
          /\ last_add' = st.last
          /\ ring' = [ring EXCEPT !.pc = "done", !.coords = coords,
                                  !.points = st.points]
    /\ UNCHANGED <<connections, compiled, nconnect, registered>>
    /\ UNCHANGED routerVars
    /\ UNCHANGED <<level, threads, query, manager>>

\* SpecRing: _add_ring on every ring of up to MaxRing coordinates
InitRing ==
    /\ rooms = <<>>
    /\ router_cache = EmptyCache
    /\ calls = <<>>
    /\ built_points = <<>>
    /\ areas = InitialAreas
    /\ connections = [id \in PointIds |-> <<>>]
    /\ compiled = NotCompiled
    /\ last_add = NoAdd
    /\ nconnect = 0
    /\ registered = {}
    /\ level = NoLevel
    /\ threads = <<>>
    /\ query = NoQuery
    /\ manager = NoManager
    /\ \E n \in 0 .. MaxRing :
          \E geom \in [1 .. n -> BOOLEAN], want_left \in BOOLEAN,
             within \in SUBSET RingPairs(n) :
             ring = [pc |-> "start", geom |-> geom, want_left |-> want_left,
                     within |-> within, coords |-> <<>>, points |-> <<>>]

NextRing == _add_ring

SpecRing == InitRing /\ [][NextRing]_vars

\* the coordinates of the wanted turn direction
Wanted == {k \in 1 .. Len(ring.geom) : ring.geom[k] = ring.want_left}

Kept == Elems(ring.coords)

SetMax(S) == CHOOSE x \in S : \A y \in S : y <= x

\* the ring is done, and only wanted coordinates were emitted, in ring order
EmitsWantedInOrder ==
    /\ Kept \subseteq Wanted
    /\ \A a, b \in 1 .. Len(ring.coords) : a < b => ring.coords[a] < ring.coords[b]
    /\ ring.points = [a \in 1 .. Len(ring.coords) |->
                         GraphPoint(ring.coords[a], a - 1)]
    /\ built_points = ring.points

----------------------------------------------------------------------------
(* SpecKey: build_router called on one room with any constraint           *)
(* arguments, among them ctypes and groups the room does not have          *)

\* "h" is a group of no room; the second room has no stair
KeyArguments ==
    [allowed_ctypes : {{"walk"}, {"walk", "stair"}},
     allow_nonpublic : BOOLEAN,
     avoid : SUBSET {"g", "h"},
     include : {{}, {"g"}}]

InitKey ==
    /\ \E i \in 0 .. MaxRoomId : rooms = <<GraphRoomAt(1, i)>>
    /\ router_cache = EmptyCache
    /\ calls = <<>>
    /\ BuildIdle
    /\ RestIdle

CallAny ==
    /\ Len(calls) < MaxCalls
    /\ \E o \in KeyArguments :
          build_router(1, o.allowed_ctypes, o.allow_nonpublic, o.avoid,
                       o.include)

NextKey == CallAny

SpecKey == InitKey /\ [][NextKey]_vars

WeightedOf(c) ==
    WeightedMatrix(RoomOf(c), c.ctypes, c.allow_nonpublic, c.avoid_i,
                   c.include_i)

\* C20: every build_router call on an unchanged room returns the router
\* _build_router computes for the call's own arguments; two argument sets
\* with the same cache key have the same weighted matrix (so argument sets
\* with different weighted matrices never share a key), and argument sets
\* that differ only in ctypes or groups the room lacks have the same key.
C20_CacheSound ==
    /\ Len(calls) > 0 =>
          LET c == calls[Len(calls)]
          IN c.router = _build_router(RoomOf(c), c.ctypes, c.allow_nonpublic,
                                      c.avoid_i, c.include_i)
    /\ \A a, b \in 1 .. Len(calls) :
          /\ calls[a].key = calls[b].key => WeightedOf(calls[a]) = WeightedOf(calls[b])
          /\ (/\ calls[a].allowed_ctypes \cap Elems(rooms[1].ctypes)
                     = calls[b].allowed_ctypes \cap Elems(rooms[1].ctypes)
              /\ calls[a].allow_nonpublic = calls[b].allow_nonpublic
              /\ calls[a].avoid \cap Elems(rooms[1].excludables)
                     = calls[b].avoid \cap Elems(rooms[1].excludables)
              /\ calls[a].include \cap Elems(rooms[1].excludables)
                     = calls[b].include \cap Elems(rooms[1].excludables))
             => calls[a].key = calls[b].key

\* a hit by arguments that differ from the first call's in a group and a
\* ctype the room lacks, and a miss by arguments with another matrix
C20_Witness ==
    /\ Len(calls) = 2
    /\ Elems(rooms[1].ctypes) = {"walk"}
    /\ ~calls[2].built
    /\ calls[1].allowed_ctypes # calls[2].allowed_ctypes
    /\ calls[1].avoid = {"g"}
    /\ calls[2].avoid = {"g", "h"}
    /\ calls[2].router.shortest_paths[0][2] = 2 * SoftFactor

----------------------------------------------------------------------------
\* C13: build_router, get_connection, contains_point, connected_points and
\* check_connection leave the room's points, room_transfer_points,
\* distances, ctypes, excludables, excludable_points and areas as they
\* were; of the state of the program they write the router cache only.
C13_Immutable ==
    [][/\ Len(rooms') = Len(rooms)
       /\ \A r \in 1 .. Len(rooms) :
             /\ rooms'[r].points = rooms[r].points
             /\ rooms'[r].room_transfer_points = rooms[r].room_transfer_points
             /\ rooms'[r].distances = rooms[r].distances
             /\ rooms'[r].ctypes = rooms[r].ctypes
             /\ rooms'[r].excludables = rooms[r].excludables
             /\ rooms'[r].excludable_points = rooms[r].excludable_points
             /\ rooms'[r].areas = rooms[r].areas
             /\ rooms'[r] = rooms[r]
       /\ built_points' = built_points
       /\ areas' = areas
       /\ connections' = connections
       /\ compiled' = compiled]_vars

C13_Witness ==
    /\ query # NoQuery
    /\ query.op = "check_connection"
    /\ query.result # None
    /\ Len(calls) = 2
    /\ Cardinality(DOMAIN router_cache) = 2

\* C15: get_connection(from_i, to_i) returns the edge whose distance is the
\* smallest entry distances[c][from_i][to_i] over all layers c and whose
\* ctype is that of the first layer attaining it, between the graph points
\* with the global ids points[from_i] and points[to_i].
C15_MinimumEdge ==
    (query # NoQuery /\ query.op = "get_connection") =>
        LET room == rooms[query.room]
            from_i == query.args[1]
            to_i == query.args[2]
            layers == Idx(Len(room.ctypes))
            e == query.result
        IN /\ \A c \in layers : e.distance <= room.distances[c][from_i][to_i]
           /\ \E c \in layers :
                 /\ room.distances[c][from_i][to_i] = e.distance
                 /\ room.ctypes[c + 1] = e.ctype
                 /\ \A k \in layers :
                       room.distances[k][from_i][to_i] = e.distance => c <= k
           /\ e.from = room.points[from_i + 1]
           /\ e.to = room.points[to_i + 1]

\* a pair with the same finite distance in two layers
C15_Witness ==
    /\ query # NoQuery
    /\ query.op = "get_connection"
    /\ query.args = <<0, 1>>
    /\ Len(rooms[1].ctypes) = 2
    /\ rooms[1].distances[0][0][1] = 2
    /\ rooms[1].distances[1][0][1] = 2
    /\ query.result.ctype = "stair"
    /\ query.result.from # 0

----------------------------------------------------------------------------
\* the multiplier the nonpublic, avoid and include steps give one point
PointMultiplier(room, c, p) ==
    IF InGroups(room, c.include, p) THEN 1
    ELSE Maximum(IF IsNonpublic(room, p)
                 THEN (IF c.allow_nonpublic THEN SoftFactor ELSE Inf)
                 ELSE 1,
                 IF InGroups(room, c.avoid, p) THEN SoftFactor ELSE 1)

\* w = d x mi x mj on the modelled values; the finite case is tested by
\* division, which keeps every intermediate value below 2^31
IsEndpointProduct(w, d, mi, mj) ==
    IF d = Inf \/ mi = Inf \/ mj = Inf THEN w = Inf
    ELSE /\ w # Inf
         /\ w % mj = 0
         /\ w \div mj = d * mi

\* C16: in the weighted matrix of _build_router the weight of every pair
\* (i, j) is the collapsed distance of the pair multiplied by the penalty
\* multiplier of point i and by the penalty multiplier of point j.
C16_EndpointProduct ==
    \A b \in 1 .. Len(calls) :
        LET c == calls[b]
            room == RoomOf(c)
            P == Idx(NumPoints(room))
            d == CollapsedDistances(room, c.ctypes)
            w == WeightedMatrix(room, c.ctypes, c.allow_nonpublic,
                                c.avoid_i, c.include_i)
        IN \A i \in P, j \in P :
              IsEndpointProduct(w[i][j], d[i][j],
                                PointMultiplier(room, c, i),
                                PointMultiplier(room, c, j))

----------------------------------------------------------------------------
\* the position of a point id in the compiled room
LocalIndex(id) == CHOOSE k \in Idx(Len(compiled.points)) : compiled.points[k + 1] = id

\* C17: an ordered pair of points may carry edges of several ctypes at
\* once: when a walk edge and a stair edge (connections of two different
\* ctypes) were made between the same two points of a room, the compiled
\* room has a finite distance for the pair in the layer of either ctype.
C17_ParallelLayers ==
    compiled.done =>
        \A e1 \in registered, e2 \in registered :
            (/\ e1[1] = e2[1] /\ e1[2] = e2[2] /\ e1[3] # e2[3]
             /\ e1[1] \in RoomPointIds /\ e1[2] \in RoomPointIds)
            => \E c1, c2 \in DOMAIN compiled.distances :
                  /\ compiled.ctypes[c1 + 1] = e1[3]
                  /\ compiled.ctypes[c2 + 1] = e2[3]
                  /\ compiled.distances[c1][LocalIndex(e1[1])][LocalIndex(e1[2])] < Inf
                  /\ compiled.distances[c2][LocalIndex(e1[1])][LocalIndex(e1[2])] < Inf

----------------------------------------------------------------------------
(* finish_build on a point list with points added twice *)

HasDuplicate(t) ==
    \E a \in 1 .. Len(t), b \in 1 .. Len(t) : a # b /\ t[a] = t[b]

BuiltIds == [k \in 1 .. Len(built_points) |-> built_points[k].i]

\* C12: when an id occurs more than once in the built point list,
\* finish_build reports it and still produces points, room_transfer_points,
\* excludable_points, ctypes and the distance matrices; when no id is
\* duplicated nothing is reported and position and id correspond one-to-one
C12_DuplicateDiagnostic ==
    compiled.done =>
        LET n == Len(built_points)
        IN /\ (compiled.printed # <<>>) <=> HasDuplicate(BuiltIds)
           /\ compiled.points = BuiltIds
           /\ Elems(compiled.room_transfer_points) \subseteq Elems(BuiltIds)
           /\ DOMAIN compiled.excludable_points[0] = Idx(n)
           /\ DOMAIN compiled.distances = Idx(Len(compiled.ctypes))
           /\ \A c \in DOMAIN compiled.distances :
                 /\ DOMAIN compiled.distances[c] = Idx(n)
                 /\ \A i \in Idx(n) : DOMAIN compiled.distances[c][i] = Idx(n)
           /\ \A id \in Elems(BuiltIds), to \in Elems(BuiltIds) :
                 \A k \in 1 .. Len(connections[id]) :
                    connections[id][k].to = to
                    => connections[id][k].ctype \in Elems(compiled.ctypes)
           /\ ~HasDuplicate(BuiltIds)
                 => /\ compiled.printed = <<>>
                    /\ \A id \in Elems(BuiltIds) :
                          Cardinality({k \in Idx(n) :
                                          compiled.points[k + 1] = id}) = 1

C12_Witness ==
    /\ compiled.done
    /\ Len(built_points) = 3
    /\ Cardinality(Elems(BuiltIds)) = 2
    /\ compiled.printed # <<>>
    /\ Len(compiled.ctypes) = 1
    /\ \E i \in Idx(3), j \in Idx(3) : compiled.distances[0][i][j] < Inf

----------------------------------------------------------------------------
(* GraphLevel.build: collect_rooms, create_points of every room,           *)
(* create_doors, create_levelconnectors, connect_points of every room.     *)
(* A level point is a record of the room it was created for (0: the level  *)
(* itself, as for a door centre); its index in level.points stands for it. *)

MaxLevelRooms == 2      \* accessible polygons of the level
MaxDoors == 2           \* doors of the level

\* the number of polygons of polygon.intersection(room.geometry), 0 when the
\* buffered door does not intersect the room
PartCounts == {0, 1, 2}

LevelVarsOnly ==
    /\ UNCHANGED <<threads, query, ring, manager>>
    /\ UNCHANGED routerVars
    /\ UNCHANGED buildVars

\* GraphLevel.__init__, build() about to run
LevelStart(accessibles, doors) ==
    [pc |-> "collect_rooms", accessibles |-> accessibles, doors |-> doors,
     rooms |-> <<>>, k |-> 1, stages |-> <<>>, points |-> <<>>,
     connections |-> {}, printed |-> <<>>, door_log |-> <<>>]

\* where build() goes on after a stage, empty loops being passed over
AfterPoints(l) ==
    IF l.doors > 0 THEN "create_doors" ELSE "create_levelconnectors"

\* the stage order of a build that runs connect_points before the doors
AfterCollectConnectFirst(l) ==
    IF Len(l.rooms) > 0 THEN "connect_points" ELSE AfterPoints(l)

AfterCollect(l) == IF Len(l.rooms) > 0 THEN "create_points" ELSE AfterPoints(l)

AfterConnectors(l) == IF Len(l.rooms) > 0 THEN "connect_points" ELSE "done"

\* collect_rooms: one GraphRoom per accessible polygon
collect_rooms ==
    /\ level.pc = "collect_rooms"
    /\ level' = [level EXCEPT
           !.rooms = [r \in 1 .. level.accessibles |-> r],
           !.stages = Append(@, <<"collect_rooms", 0>>),
           !.k = 1,
           !.pc = AfterCollect([level EXCEPT
                      !.rooms = [r \in 1 .. level.accessibles |-> r]])]
    /\ LevelVarsOnly

\* for room in self.rooms: room.create_points()
create_points ==
    /\ level.pc = "create_points"
    /\ level' = [level EXCEPT
           !.stages = Append(@, <<"create_points", level.rooms[level.k]>>),
           !.k = IF level.k < Len(level.rooms) THEN level.k + 1 ELSE 1,
           !.pc = IF level.k < Len(level.rooms) THEN "create_points"
                  ELSE AfterPoints(level)]
    /\ LevelVarsOnly

\* the points create_doors makes for one door: one per polygon of the
\* intersection with each room, in the order of the rooms
RECURSIVE DoorPoints(_, _)
DoorPoints(parts, r) ==
    IF r > Len(parts) THEN <<>>
    ELSE [j \in 1 .. parts[r] |-> [room |-> r]] \o DoorPoints(parts, r + 1)

\* if num_points < 2: print(...)
Warns(parts, num_points) == num_points < 2

\* the body of the loop of create_doors for door k
create_door(parts) ==
    LET center == Len(level.points) + 1
        made == DoorPoints(parts, 1)
        ids == {center + j : j \in 1 .. Len(made)}
        warned == Warns(parts, Len(made))
    IN /\ level.pc = "create_doors"
       /\ level' = [level EXCEPT
              !.stages = Append(@, <<"create_doors", level.k>>),
              !.points = (@ \o <<[room |-> 0]>>) \o made,
              !.connections = @ \cup {<<center, p>> : p \in ids}
                                \cup {<<p, center>> : p \in ids},
              !.printed = IF warned THEN Append(@, level.k) ELSE @,
              !.door_log = Append(@, [parts |-> parts, center |-> center,
                                      num_points |-> Len(made),
                                      warned |-> warned]),
              !.k = IF level.k < level.doors THEN level.k + 1 ELSE 1,
              !.pc = IF level.k < level.doors THEN "create_doors"
                     ELSE "create_levelconnectors"]
       /\ LevelVarsOnly

create_doors ==
    \E parts \in [1 .. Len(level.rooms) -> PartCounts] : create_door(parts)

\* create_levelconnectors: a point in every room the connector intersects
create_levelconnectors ==
    /\ level.pc = "create_levelconnectors"
    /\ \E hit \in {{}, {1}} :
          /\ hit \subseteq 1 .. Len(level.rooms)
          /\ level' = [level EXCEPT
                 !.stages = Append(@, <<"create_levelconnectors", 0>>),
                 !.points = @ \o [j \in 1 .. Cardinality(hit) |-> [room |-> 1]],
                 !.k = 1,
                 !.pc = AfterConnectors(level)]
    /\ LevelVarsOnly

\* for room in self.rooms: room.connect_points()
connect_points ==
    /\ level.pc = "connect_points"
    /\ level' = [level EXCEPT
           !.stages = Append(@, <<"connect_points", level.rooms[level.k]>>),
           !.k = IF level.k < Len(level.rooms) THEN level.k + 1 ELSE 1,
           !.pc = IF level.k < Len(level.rooms) THEN "connect_points"
                  ELSE "done"]
    /\ LevelVarsOnly

InitLevel ==
    /\ rooms = <<>>
    /\ router_cache = EmptyCache
    /\ calls = <<>>
    /\ BuildIdle
    /\ \E accessibles \in 0 .. MaxLevelRooms, doors \in 0 .. MaxDoors :
          level = LevelStart(accessibles, doors)
    /\ threads = <<>>
    /\ query = NoQuery
    /\ ring = NoRing
    /\ manager = NoManager

NextLevel ==
    \/ collect_rooms
    \/ create_points
    \/ create_doors
    \/ create_levelconnectors
    \/ connect_points

SpecLevel == InitLevel /\ [][NextLevel]_vars

----------------------------------------------------------------------------
(* Claims about the level build, checked under SpecLevel *)

\* the rooms a door joins: those its buffered polygon intersects
RoomsJoined(parts) == {r \in 1 .. Len(parts) : parts[r] > 0}

\* the points made for the door of log entry e: those after its centre
DoorPointIds(e) == {e.center + j : j \in 1 .. e.num_points}

\* C11: every door that joins fewer than two rooms gets the integrity
\* warning; its centre point and the connections to and from it stay in the
\* graph, and the build goes on to the remaining doors and finishes them.
C11_DoorWarning ==
    /\ \A d \in 1 .. Len(level.door_log) :
          LET e == level.door_log[d]
          IN Cardinality(RoomsJoined(e.parts)) < 2
             => /\ e.warned
                /\ \E k \in 1 .. Len(level.printed) : level.printed[k] = d
                /\ e.center \in 1 .. Len(level.points)
                /\ \A p \in DoorPointIds(e) :
                      /\ <<e.center, p>> \in level.connections
                      /\ <<p, e.center>> \in level.connections
    /\ level.pc \in {"create_levelconnectors", "connect_points", "done"}
          => Len(level.door_log) = level.doors

StageIndices(name) ==
    {a \in 1 .. Len(level.stages) : level.stages[a][1] = name}

\* C18: create_doors and create_levelconnectors run only after create_points
\* of every room of the level, create_doors before create_levelconnectors,
\* and connect_points of any room only after all doors and the level
\* connectors are done.
C18_PhaseOrder ==
    /\ \A b \in StageIndices("create_doors") \cup StageIndices("create_levelconnectors") :
          \A r \in 1 .. level.accessibles :
             \E a \in StageIndices("create_points") :
                a < b /\ level.stages[a][2] = r
    /\ \A b \in StageIndices("create_levelconnectors") :
          /\ \A a \in StageIndices("create_doors") : a < b
          /\ Cardinality(StageIndices("create_doors")) = level.doors
    /\ \A b \in StageIndices("connect_points") :
          /\ \E c \in StageIndices("create_levelconnectors") : c < b
          /\ \A a \in StageIndices("create_doors") : a < b
          /\ Cardinality(StageIndices("create_doors")) = level.doors
          /\ \A r \in 1 .. level.accessibles :
                \E a \in StageIndices("create_points") :
                   a < b /\ level.stages[a][2] = r

\* a level of two rooms and two doors was built to the end
C18_Witness ==
    /\ level.pc = "done"
    /\ level.accessibles = 2 /\ level.doors = 2
    /\ Cardinality(StageIndices("create_points")) = 2
    /\ Cardinality(StageIndices("create_doors")) = 2
    /\ Cardinality(StageIndices("connect_points")) = 2

----------------------------------------------------------------------------
(* MapManager.add_map_dir.  A value that may be None is a tuple: <<>> for  *)
(* None, <<v>> for the value v.                                            *)

NPkgNames == 3

PkgNames == {"pkg" \o ToString(k) : k \in 1 .. NPkgNames}

Optional(S) == {<<>>} \cup {<<v>> : v \in S}

\* the directories a path may name: without map.json, with a map.json that
\* is no JSON, with a map.json that may lack 'name' and 'extends'
MapDirs ==
    {[file |-> "missing", name |-> <<>>, extends |-> <<>>],
     [file |-> "undecodable", name |-> <<>>, extends |-> <<>>]}
    \cup [file : {"ok"}, name : Optional(PkgNames), extends : Optional(PkgNames)]

\* MapDataPackage.__init__
MapDataPackage(path) ==
    IF path.file # "ok" \/ path.name = <<>>
    THEN [raised |-> <<"MapInitError">>, name |-> "", extends |-> <<>>]
    ELSE [raised |-> <<>>, name |-> path.name[1], extends |-> path.extends]

\* pkg.name in self.pkgs
InPkgs(pkgs, name) == \E k \in 1 .. Len(pkgs) : pkgs[k].name = name

\* self.pkgs[pkg.name] = pkg on the OrderedDict
PkgsPut(pkgs, pkg) ==
    IF InPkgs(pkgs, pkg.name)
    THEN [k \in 1 .. Len(pkgs) |->
             IF pkgs[k].name = pkg.name THEN pkg ELSE pkgs[k]]
    ELSE Append(pkgs, pkg)

\* the exception add_map_dir leaves with, if any; the message of the third
\* raise reads pkg.exends, an attribute no package has
RaisedBy(m, made) ==
    IF made.raised # <<>> THEN made.raised
    ELSE IF InPkgs(m.pkgs, made.name) THEN <<"MapInitError">>
    ELSE IF made.extends = <<>>
         THEN (IF m.main_pkg # <<>> THEN <<"MapInitError">> ELSE <<>>)
    ELSE IF ~InPkgs(m.pkgs, made.extends[1]) THEN <<"AttributeError">>
    ELSE <<>>

\* MapManager.add_map_dir
add_map_dir(path) ==
    \E made \in {MapDataPackage(path)} :
    \E raised \in {RaisedBy(manager, made)} :
       LET pkg == [name |-> made.name, extends |-> made.extends]
           call == [path |-> path, raised |-> raised,
                    main_pkg |-> manager.main_pkg, pkgs |-> manager.pkgs]
       IN /\ manager' =
                IF raised # <<>> THEN [manager EXCEPT !.last = <<call>>]
                ELSE [main_pkg |-> IF pkg.extends = <<>> THEN <<pkg>>
                                   ELSE manager.main_pkg,
                      pkgs |-> PkgsPut(manager.pkgs, pkg),
                      last |-> <<call>>]
          /\ UNCHANGED routerVars
          /\ UNCHANGED buildVars
          /\ UNCHANGED <<level, threads, query, ring>>

AddMapDir == \E path \in MapDirs : add_map_dir(path)

InitManager ==
    /\ rooms = <<>>
    /\ router_cache = EmptyCache
    /\ calls = <<>>
    /\ BuildIdle
    /\ RestIdle

NextManager == AddMapDir

SpecManager == InitManager /\ [][NextManager]_vars

\* the registry is sound: unique names, one root at most and it is
\* main_pkg, every parent added before its child
RegistrySound ==
    LET pkgs == manager.pkgs
    IN /\ \A j, k \in 1 .. Len(pkgs) : pkgs[j].name = pkgs[k].name => j = k
       /\ \A j, k \in 1 .. Len(pkgs) :
             (pkgs[j].extends = <<>> /\ pkgs[k].extends = <<>>) => j = k
       /\ \A k \in 1 .. Len(pkgs) :
             pkgs[k].extends = <<>> => manager.main_pkg = <<pkgs[k]>>
       /\ \A k \in 1 .. Len(pkgs) :
             pkgs[k].extends # <<>>
             => \E j \in 1 .. (k - 1) : pkgs[j].name = pkgs[k].extends[1]

\* the call would add a duplicate name, a second root package or a package
\* whose parent is not imported
WouldViolate(call) ==
    /\ call.path.file = "ok"
    /\ call.path.name # <<>>
    /\ \/ InPkgs(call.pkgs, call.path.name[1])
       \/ call.path.extends = <<>> /\ call.main_pkg # <<>>
       \/ call.path.extends # <<>> /\ ~InPkgs(call.pkgs, call.path.extends[1])

\* a rejected call leaves main_pkg and pkgs as they were
RejectedUnchanged ==
    \A c \in Elems(manager.last) :
        WouldViolate(c)
        => manager.main_pkg = c.main_pkg /\ manager.pkgs = c.pkgs

\* C21: after any sequence of add_map_dir calls the package names in pkgs
\* are unique, at most one package has no parent and it is main_pkg, and
\* every package with a parent was added after the package it extends; a
\* call that would break this (duplicate name, second root package, parent
\* not yet imported) raises MapInitError and leaves main_pkg and pkgs as
\* they were.
C21_RegistryIntegrity ==
    /\ RegistrySound
    /\ RejectedUnchanged
    /\ \A c \in Elems(manager.last) :
          WouldViolate(c) => c.raised = <<"MapInitError">>

====
